---- MODULE Spec2Model ----
(***************************************************************************)
(* hhyhhy/tsdb: an in-memory time-series store.                            *)
(*                                                                         *)
(* Two engines live in the repository:                                     *)
(*   - package memtsdb (src/unnamed/part_000, lines 1-132): the            *)
(*     time-windowed engine, a list of shardGroups each owning a Shard;    *)
(*   - package tsdb (src/unnamed/part_000, lines 133-207 and               *)
(*     src/shard.go): the generic engine, one lock-striped shard, an       *)
(*     index and a background retention goroutine.                         *)
(*                                                                         *)
(* Time is an integer count of model ticks.  The memtsdb Shard and the     *)
(* tsdb index are not part of the sources at hand; they are modelled from  *)
(* the specification and the tests (marked "spec-modelled" below).         *)
(***************************************************************************)
EXTENDS Integers, Sequences, FiniteSets, TLC

\* ------------------------------------------------------------------------
\* Bounds of the model
\* ------------------------------------------------------------------------

\* largest timestamp a point of the time-windowed engine carries
MaxTime == 9
\* number of points inserted into the time-windowed engine over a run
MaxPoints == 3
\* largest bucket duration tried on initTime alone
MaxRound == 4
\* retention duration handed to NewTSDB (memtsdb), in ticks
RetentionDuration == 4

\* retention policy handed to New (tsdb), in ticks
Retention == 2
\* the clock of the generic engine stops at MaxNow
MaxNow == 4
\* WritePoints calls made over a run, by all writers together
MaxCalls == 2
\* points in one WritePoints batch
MaxBatch == 2

\* writes and removeBefores one caller makes on the shard over a run
MaxOps == 4
\* largest timestamp of a value that caller writes
MaxStamp == 2
\* Insert calls made on a memtsdb Shard over a run
MaxInserts == 3

\* _shardGroupDuration (1 minute), scaled: one tick is 15 seconds
ShardGroupDuration == 4
\* _partitionNum (16), scaled to the two partitions the series keys of the
\* model hash to
PartitionNum == 2

\* ------------------------------------------------------------------------
\* State
\* ------------------------------------------------------------------------

VARIABLES
    \* memtsdb.tsdb
    sgs,        \* t.sgs: sequence of shardGroup [min, max, shard]
    emptySgs,   \* t.emptySgs: pool of retired groups
    shards,     \* heap of memtsdb Shards: shard id -> sequence of points
    inserted,   \* history: every point handed to InsertPoints, in order
    lastQuery,  \* the last Query call: its arguments and what it returned
    \* initTime applied on its own
    itT, itD, itG,
    \* tsdb.TSDB (the generic engine)
    isClosed,   \* db.isClosed
    idx,        \* db.idx: the series registered in the index
    store,      \* db.store: partition -> (series key -> entry id, 0 for nil)
    heap,       \* the entries ever allocated: id -> [values, cap]
    pmu,        \* partition.mu of each partition: "free" or its exclusive holder
    gc,         \* the retention goroutine: position and locals; and, as
                \* history of the partition.removeBefore under way, the keys
                \* whose entry held no values when it locked the partition
                \* (empty) and those whose entry a writer had looked up and
                \* not yet added to (held)
    now,        \* the wall clock, as last read by gc
    ticks,      \* ticks of the ticker that gc has handled
    \* callers of WritePoints
    wpc, wvalues, wtodo, wkey, we, wres, wcalls,
    winvalid,   \* history: position of the first point without tags in the
                \* writer's last batch, 0 when every point had tags
    wrote,      \* history: per writer and series, the values of the batches
                \* that WritePoints accepted, in order
    \* callers of Stop
    spc,
    \* the shard driven by one caller at a time
    shOp,       \* history: the caller's last operation, its arguments and
                \* what it returned; n counts the writes and removeBefores
    \* memtsdb.Shard under Clear
    ms,         \* the Shard that is filled, cleared and used again
    fr,         \* a Shard constructed when ms was cleared, given the same calls
    msq         \* history: the last Query and what either Shard returned

twvars == <<sgs, emptySgs, shards, inserted, lastQuery>>
itvars == <<itT, itD, itG>>
dbvars == <<isClosed, idx, store, heap, pmu, gc, now, ticks,
            wpc, wvalues, wtodo, wkey, we, wres, wcalls, winvalid, wrote, spc>>
vars == <<sgs, emptySgs, shards, inserted, lastQuery, itT, itD, itG,
          isClosed, idx, store, heap, pmu, gc, now, ticks,
          wpc, wvalues, wtodo, wkey, we, wres, wcalls, winvalid, wrote, spc,
          shOp, ms, fr, msq>>
shvars == <<shOp>>
msvars == <<ms, fr, msq>>

None == [none |-> TRUE]

\* ------------------------------------------------------------------------
\* memtsdb: shardGroup
\* ------------------------------------------------------------------------

\* time.Time.Round(d): the nearest multiple of d, halfway values rounded up
Round(t, d) ==
    LET r == t % d
    IN  IF r + r < d THEN t - r ELSE t + (d - r)

\* shardGroup.initTime: the window [min, max) a group gets for timestamp t
initTime(g, t, round) ==
    LET rounded == Round(t, round)
    IN  IF rounded - t >= 0
        THEN [g EXCEPT !.min = rounded - round, !.max = rounded]
        ELSE [g EXCEPT !.min = rounded, !.max = rounded + round]

\* newShardGroup: a fresh Shard (its id in the heap) and initTime
newShardGroup(shardId, t, round) ==
    initTime([min |-> 0, max |-> 0, shard |-> shardId], t, round)

\* shardGroup.contains
contains(g, t) ==
    \/ (g.min < t /\ g.max > t)
    \/ g.min = t

\* shardGroup.have
have(g, min, max) ==
    \/ (g.min < min /\ g.max > min)
    \/ (g.min < max /\ g.max > max)
    \/ g.min = min

\* ------------------------------------------------------------------------
\* memtsdb: Shard (spec-modelled: a value log with a tag index)
\* ------------------------------------------------------------------------

AllTags == {"a=b", "a=c"}
TagSets == {{"a=b"}, {"a=b", "a=c"}}

\* Shard.Insert: the point is appended to the shard's log and indexed
ShardInsert(log, point) == Append(log, point)

\* Shard.Query: the points carrying the tag with min <= Time <= max, in
\* insertion order
ShardQuery(log, tag, min, max) ==
    LET Match(p) == tag \in p.tags /\ p.time >= min /\ p.time <= max
    IN  SelectSeq(log, Match)

\* ------------------------------------------------------------------------
\* memtsdb: tsdb
\* ------------------------------------------------------------------------

\* the engine's fields as one record, so that the helpers below can thread
\* it through the loop of InsertPoints
Engine == [sgs |-> sgs, emptySgs |-> emptySgs, shards |-> shards]

\* index of the first active group that contains ti, 0 when there is none
FirstContaining(groups, ti) ==
    IF \E i \in 1..Len(groups) : contains(groups[i], ti)
    THEN CHOOSE i \in 1..Len(groups) :
            /\ contains(groups[i], ti)
            /\ \A j \in 1..(i - 1) : ~contains(groups[j], ti)
    ELSE 0

\* tsdb.getShardGroup: the engine after the call and the group returned
getShardGroup(e, ti) ==
    LET i == FirstContaining(e.sgs, ti)
    IN  IF i # 0
        THEN [eng |-> e, sg |-> e.sgs[i]]
        ELSE IF Len(e.emptySgs) = 0
        THEN LET sg == newShardGroup(Len(e.shards) + 1, ti, ShardGroupDuration)
             IN  [eng |-> [e EXCEPT !.sgs = Append(e.sgs, sg),
                                    !.shards = Append(e.shards, <<>>)],
                  sg |-> sg]
        ELSE LET sg == initTime(e.emptySgs[Len(e.emptySgs)], ti, ShardGroupDuration)
             IN  [eng |-> [e EXCEPT !.sgs = Append(e.sgs, sg),
                                    !.emptySgs = SubSeq(e.emptySgs, 1, Len(e.emptySgs) - 1)],
                  sg |-> sg]

\* the body of InsertPoints's loop, for the points from position i on
RECURSIVE insertFrom(_, _, _)
insertFrom(e, points, i) ==
    IF i > Len(points) THEN e
    ELSE LET r == getShardGroup(e, points[i].time)
             after == [r.eng EXCEPT !.shards[r.sg.shard] =
                           ShardInsert(r.eng.shards[r.sg.shard], points[i])]
         IN  insertFrom(after, points, i + 1)

\* the concatenation, in the order of the active list, of what each group
\* that have() selects answers
RECURSIVE queryFrom(_, _, _, _)
queryFrom(i, tag, min, max) ==
    IF i > Len(sgs) THEN <<>>
    ELSE (IF have(sgs[i], min, max)
          THEN ShardQuery(shards[sgs[i].shard], tag, min, max)
          ELSE <<>>) \o queryFrom(i + 1, tag, min, max)

Times == 0..MaxTime

\* a batch of one or two points; Field numbers the points in insertion order
Batches ==
    LET n == Len(inserted)
        P(k) == [tags : TagSets, time : Times, field : {n + k}]
    IN  {<<p>> : p \in P(1)}
          \cup (IF n + 2 <= MaxPoints
                THEN {<<p, q>> : p \in P(1), q \in P(2)} ELSE {})

\* tsdb.InsertPoints, under t.mu.Lock
InsertPoints ==
    /\ Len(inserted) < MaxPoints
    /\ \E points \in Batches :
          LET e == insertFrom(Engine, points, 1)
          IN  /\ sgs' = e.sgs
              /\ emptySgs' = e.emptySgs
              /\ shards' = e.shards
              /\ inserted' = inserted \o points
    /\ lastQuery' = None
    /\ UNCHANGED <<itvars, dbvars, shvars, msvars>>

\* tsdb.Query, under t.mu.RLock.  It changes nothing of the engine, so one
\* recorded call per state of the engine shows all that a Query can return.
Query ==
    /\ lastQuery = None
    /\ \E tag \in AllTags, min \in Times, max \in Times :
          /\ min <= max
          /\ lastQuery' = [tag |-> tag, min |-> min, max |-> max,
                           ps |-> queryFrom(1, tag, min, max)]
    /\ UNCHANGED <<sgs, emptySgs, shards, inserted>>
    /\ UNCHANGED <<itvars, dbvars, shvars, msvars>>

\* ------------------------------------------------------------------------
\* initTime on its own: any timestamp, any bucket duration
\* ------------------------------------------------------------------------

\* a timestamp and a duration are drawn, then initTime is applied
ApplyInitTime ==
    /\ itG = None
    /\ itG' = initTime([min |-> 0, max |-> 0, shard |-> 0], itT, itD)
    /\ UNCHANGED <<itT, itD>>
    /\ UNCHANGED <<twvars, dbvars, shvars, msvars>>

DrawInitTime ==
    /\ itG # None
    /\ itT' \in 0..(2 * MaxTime)
    /\ itD' \in 1..MaxRound
    /\ itG' = None
    /\ UNCHANGED <<twvars, dbvars, shvars, msvars>>

\* ------------------------------------------------------------------------
\* tsdb: entry (src/shard.go)
\* ------------------------------------------------------------------------

\* a stored value carries, beside UnixNano and V, the history field ep: the
\* number of sweeps begun when it was stored.  No operation reads ep.

\* newEntry that allocates and forgets to copy the values
newEntryNoCopy(vs) == [values |-> <<>>, cap |-> Len(vs)]

\* newEntry: make([]Value, 0, len(vs)) and append
newEntry(vs) == [values |-> vs, cap |-> Len(vs)]

\* entry.add: append under e.mu; the slice grows when it is full, and only
\* whether its capacity is zero is ever observed
entryAdd(e, vs) ==
    LET all == e.values \o vs
    IN  [values |-> all, cap |-> IF Len(all) > e.cap THEN Len(all) ELSE e.cap]

\* entry.removeBefore whose loop starts at the second value
entryRemoveBeforeSkipFirst(e, unixNano) ==
    LET Keep(v) == v.unixNano >= unixNano
    IN  [values |-> IF e.values = <<>> THEN <<>> ELSE SelectSeq(Tail(e.values), Keep),
         cap |-> Len(e.values)]

\* entry.removeBefore with > in place of >=
entryRemoveBeforeStrict(e, unixNano) ==
    LET Keep(v) == v.unixNano > unixNano
    IN  [values |-> SelectSeq(e.values, Keep), cap |-> Len(e.values)]

\* entry.removeBefore with its comparison turned around
entryRemoveBeforeInverted(e, unixNano) ==
    LET Keep(v) == v.unixNano <= unixNano
    IN  [values |-> SelectSeq(e.values, Keep), cap |-> Len(e.values)]

\* entry.removeBefore: a new slice of capacity len(e.values) holding the
\* values with UnixNano >= unixNano
entryRemoveBefore(e, unixNano) ==
    LET Keep(v) == v.unixNano >= unixNano
    IN  [values |-> SelectSeq(e.values, Keep), cap |-> Len(e.values)]

\* entry.valuesBetween with < max in place of <= max
entryValuesBetweenExclusive(e, min, max) ==
    LET In(v) == v.unixNano >= min /\ v.unixNano < max
    IN  SelectSeq(e.values, In)

\* entry.valuesBetween
entryValuesBetween(e, min, max) ==
    LET In(v) == v.unixNano >= min /\ v.unixNano <= max
    IN  SelectSeq(e.values, In)

\* ------------------------------------------------------------------------
\* tsdb: partition and shard (src/shard.go)
\* ------------------------------------------------------------------------

SeriesKeys == {"a", "b"}
Partitions == 0..(PartitionNum - 1)

\* xxhash.Sum64(key): a fixed function of the key; the two series of the
\* model fall into the same partition
Hash(key) == IF key = "a" THEN 2 ELSE 4

\* getPartitions whose hash is seeded anew as the engine runs
getPartitionsSeeded(key) == (Hash(key) + ticks) % PartitionNum

\* shard.getPartitions
getPartitions(key) == Hash(key) % PartitionNum

\* newShard: every partition is created empty
newShard == [p \in Partitions |-> [k \in SeriesKeys |-> 0]]

\* partition.valuesBetween, and the shard's through getPartitions
valuesBetween(key, min, max) ==
    LET e == store[getPartitions(key)][key]
    IN  IF e = 0 THEN <<>> ELSE entryValuesBetween(heap[e], min, max)

\* ------------------------------------------------------------------------
\* tsdb: TSDB.WritePoints (src/unnamed/part_000)
\* ------------------------------------------------------------------------

Writers == {1, 2}
Stoppers == {1, 2}

\* the timestamp of the points a writer sends: writer 1 sends points that a
\* late sweep evicts, writer 2 points that sit on the largest cutoff a sweep
\* can use; the Field of a point names its writer
PointTime(w) == IF w = 1 THEN 0 ELSE MaxNow - Retention

\* Point.Series() is "" for a point without tags
PointsOf(w) == [series : SeriesKeys \cup {""}, time : {PointTime(w)}, field : {w}]

RECURSIVE SeqsUpTo(_, _)
SeqsUpTo(S, n) ==
    IF n = 0 THEN {<<>>}
    ELSE LET shorter == SeqsUpTo(S, n - 1)
         IN  shorter \cup {Append(q, x) : q \in {r \in shorter : Len(r) = n - 1}, x \in S}

BatchesOf(w) == SeqsUpTo(PointsOf(w), MaxBatch) \ {<<>>}

NoValues == [k \in SeriesKeys |-> <<>>]

\* the loop with "continue" in place of the error return
RECURSIVE groupFromSkipping(_, _, _)
groupFromSkipping(points, i, values) ==
    IF i > Len(points) THEN [err |-> "nil", values |-> values]
    ELSE LET s == points[i].series
         IN  IF s = ""
             THEN groupFromSkipping(points, i + 1, values)
             ELSE groupFromSkipping(points, i + 1,
                      [values EXCEPT ![s] = Append(@, [unixNano |-> points[i].time,
                                                       v |-> points[i].field])])

\* the loop of WritePoints over the batch from position i on: values grouped
\* by series, or the error at the first point without tags
RECURSIVE groupFrom(_, _, _)
groupFrom(points, i, values) ==
    IF i > Len(points) THEN [err |-> "nil", values |-> values]
    ELSE LET s == points[i].series
         IN  IF s = ""
             THEN [err |-> "ErrPointMissingTag", values |-> NoValues]
             ELSE groupFrom(points, i + 1,
                      [values EXCEPT ![s] = Append(@, [unixNano |-> points[i].time,
                                                       v |-> points[i].field])])

\* WritePoints without its closed check
writePointsHeadUnchecked(closed, points) == groupFrom(points, 1, NoValues)

\* WritePoints up to the call of createSeriesIfNotExists: the closed check,
\* then the loop
writePointsHead(closed, points) ==
    IF closed THEN [err |-> "ErrDBClosed", values |-> NoValues]
    ELSE groupFrom(points, 1, NoValues)

\* index.createSeriesIfNotExists (spec-modelled): the series are registered
createSeriesIfNotExists(index, series) == index \cup series

\* the values as they are stored
Stamp(vs) == [i \in 1..Len(vs) |-> [unixNano |-> vs[i].unixNano, v |-> vs[i].v, ep |-> ticks]]

wvars == <<wpc, wvalues, wtodo, wkey, we, wres, wcalls, winvalid, wrote>>

\* position of the first point without tags, 0 when there is none
FirstInvalid(points) ==
    IF \E i \in 1..Len(points) : points[i].series = ""
    THEN CHOOSE i \in 1..Len(points) :
            /\ points[i].series = ""
            /\ \A j \in 1..(i - 1) : points[j].series # ""
    ELSE 0

\* a caller enters WritePoints: db.isClosed is read and the batch grouped
W_Call(w) ==
    /\ wpc[w] = "idle"
    /\ wcalls[1] + wcalls[2] < MaxCalls
    /\ \E points \in BatchesOf(w) :
          LET r == writePointsHead(isClosed, points)
          IN  /\ wres' = [wres EXCEPT ![w] = IF r.err = "nil" THEN "running" ELSE r.err]
              /\ wpc' = [wpc EXCEPT ![w] = IF r.err = "nil" THEN "index" ELSE "idle"]
              /\ wvalues' = [wvalues EXCEPT ![w] = r.values]
              /\ winvalid' = [winvalid EXCEPT ![w] = FirstInvalid(points)]
              /\ wrote' = [wrote EXCEPT ![w] = [k \in SeriesKeys |-> @[k] \o r.values[k]]]
    /\ wcalls' = [wcalls EXCEPT ![w] = @ + 1]
    /\ UNCHANGED <<wtodo, wkey, we>>
    /\ UNCHANGED <<isClosed, idx, store, heap, pmu, gc, now, ticks, spc>>
    /\ UNCHANGED <<twvars, itvars, shvars, msvars>>

\* WritePoints that goes on to writeMulti without registering the series
W_IndexSkipped(w) ==
    /\ wpc[w] = "index"
    /\ idx' = idx
    /\ wtodo' = [wtodo EXCEPT ![w] = {k \in SeriesKeys : wvalues[w][k] # <<>>}]
    /\ wpc' = [wpc EXCEPT ![w] = "write"]
    /\ UNCHANGED <<wvalues, wkey, we, wres, wcalls, winvalid, wrote>>
    /\ UNCHANGED <<isClosed, store, heap, pmu, gc, now, ticks, spc>>
    /\ UNCHANGED <<twvars, itvars, shvars, msvars>>

\* db.idx.createSeriesIfNotExists(seriesTags)
W_Index(w) ==
    /\ wpc[w] = "index"
    /\ idx' = createSeriesIfNotExists(idx, {k \in SeriesKeys : wvalues[w][k] # <<>>})
    /\ wtodo' = [wtodo EXCEPT ![w] = {k \in SeriesKeys : wvalues[w][k] # <<>>}]
    /\ wpc' = [wpc EXCEPT ![w] = "write"]
    /\ UNCHANGED <<wvalues, wkey, we, wres, wcalls, winvalid, wrote>>
    /\ UNCHANGED <<isClosed, store, heap, pmu, gc, now, ticks, spc>>
    /\ UNCHANGED <<twvars, itvars, shvars, msvars>>

\* where a writer goes after the write of one key: the next key of
\* writeMulti's range, or the return of WritePoints
AfterKey(w) ==
    /\ wtodo' = [wtodo EXCEPT ![w] = @ \ {wkey[w]}]
    /\ wkey' = [wkey EXCEPT ![w] = ""]
    /\ we' = [we EXCEPT ![w] = 0]
    /\ IF wtodo[w] \ {wkey[w]} = {}
       THEN /\ wpc' = [wpc EXCEPT ![w] = "idle"]
            /\ wres' = [wres EXCEPT ![w] = "nil"]
            /\ wvalues' = [wvalues EXCEPT ![w] = NoValues]
       ELSE /\ wpc' = [wpc EXCEPT ![w] = "write"]
            /\ UNCHANGED <<wres, wvalues>>
    /\ UNCHANGED <<wcalls, winvalid, wrote>>

\* writeMulti takes a key (a map is ranged over in any order);
\* partition.write reads p.store[key] under p.mu.RLock
W_Read(w) ==
    /\ wpc[w] = "write"
    /\ \E k \in wtodo[w] :
          /\ pmu[getPartitions(k)] = "free"
          /\ wkey' = [wkey EXCEPT ![w] = k]
          /\ we' = [we EXCEPT ![w] = store[getPartitions(k)][k]]
          /\ wpc' = [wpc EXCEPT ![w] = IF store[getPartitions(k)][k] # 0 THEN "add" ELSE "lock"]
    /\ UNCHANGED <<wvalues, wtodo, wres, wcalls, winvalid, wrote>>
    /\ UNCHANGED <<isClosed, idx, store, heap, pmu, gc, now, ticks, spc>>
    /\ UNCHANGED <<twvars, itvars, shvars, msvars>>

\* partition.write, the entry was there: e.add(values)
W_Add(w) ==
    /\ wpc[w] = "add"
    /\ heap' = [heap EXCEPT ![we[w]] = entryAdd(@, Stamp(wvalues[w][wkey[w]]))]
    /\ AfterKey(w)
    /\ UNCHANGED <<isClosed, idx, store, pmu, gc, now, ticks, spc>>
    /\ UNCHANGED <<twvars, itvars, shvars, msvars>>

\* partition.write, the entry was not there: p.mu.Lock()
W_Lock(w) ==
    /\ wpc[w] = "lock"
    /\ pmu[getPartitions(wkey[w])] = "free"
    /\ pmu' = [pmu EXCEPT ![getPartitions(wkey[w])] = "writer"]
    /\ wpc' = [wpc EXCEPT ![w] = "create"]
    /\ UNCHANGED <<wvalues, wtodo, wkey, we, wres, wcalls, winvalid, wrote>>
    /\ UNCHANGED <<isClosed, idx, store, heap, gc, now, ticks, spc>>
    /\ UNCHANGED <<twvars, itvars, shvars, msvars>>

\* partition.write under p.mu without the second look at p.store[key]
W_CreateNoRecheck(w) ==
    /\ wpc[w] = "create"
    /\ LET k == wkey[w]
           p == getPartitions(k)
       IN  /\ heap' = Append(heap, newEntry(Stamp(wvalues[w][k])))
           /\ store' = [store EXCEPT ![p][k] = Len(heap) + 1]
           /\ pmu' = [pmu EXCEPT ![p] = "free"]
    /\ AfterKey(w)
    /\ UNCHANGED <<isClosed, idx, gc, now, ticks, spc>>
    /\ UNCHANGED <<twvars, itvars, shvars, msvars>>

\* partition.write under p.mu: check again, add or create, unlock
W_Create(w) ==
    /\ wpc[w] = "create"
    /\ LET k == wkey[w]
           p == getPartitions(k)
           e == store[p][k]
       IN  /\ IF e # 0
              THEN /\ heap' = [heap EXCEPT ![e] = entryAdd(@, Stamp(wvalues[w][k]))]
                   /\ store' = store
              ELSE /\ heap' = Append(heap, newEntry(Stamp(wvalues[w][k])))
                   /\ store' = [store EXCEPT ![p][k] = Len(heap) + 1]
           /\ pmu' = [pmu EXCEPT ![p] = "free"]
    /\ AfterKey(w)
    /\ UNCHANGED <<isClosed, idx, gc, now, ticks, spc>>
    /\ UNCHANGED <<twvars, itvars, shvars, msvars>>

\* ------------------------------------------------------------------------
\* tsdb: TSDB.gc and TSDB.Stop (src/unnamed/part_000)
\* ------------------------------------------------------------------------

GcAt(pc) == [gc EXCEPT !.pc = pc]

\* case <-ticker.C: the k-th tick handled was sent at k * Retention or later;
\* time.Now() is read and shard.removeBefore begins
G_Tick ==
    /\ gc.pc = "select"
    /\ \E t \in now..MaxNow :
          /\ t >= (ticks + 1) * Retention
          /\ now' = t
          /\ gc' = [gc EXCEPT !.pc = "lock", !.remove = t - Retention, !.p = 0]
    /\ ticks' = ticks + 1
    /\ UNCHANGED <<isClosed, idx, store, heap, pmu, spc, wvars>>
    /\ UNCHANGED <<twvars, itvars, shvars, msvars>>

\* partition.removeBefore: p.mu.Lock(), and the range over p.store begins
G_Lock ==
    /\ gc.pc = "lock"
    /\ pmu[gc.p] = "free"
    /\ pmu' = [pmu EXCEPT ![gc.p] = "gc"]
    /\ gc' = [gc EXCEPT !.pc = "range",
                        !.todo = {k \in SeriesKeys : store[gc.p][k] # 0},
                        !.keep = {},
                        !.empty = {k \in SeriesKeys :
                                      /\ store[gc.p][k] # 0
                                      /\ heap[store[gc.p][k]].values = <<>>},
                        !.held = {k \in SeriesKeys :
                                     /\ store[gc.p][k] # 0
                                     /\ \E w \in Writers :
                                           wpc[w] = "add" /\ we[w] = store[gc.p][k]}]
    /\ UNCHANGED <<isClosed, idx, store, heap, now, ticks, spc, wvars>>
    /\ UNCHANGED <<twvars, itvars, shvars, msvars>>

\* the range takes an entry: e.removeBefore(unixNano)
G_Remove ==
    /\ gc.pc = "range"
    /\ \E k \in gc.todo :
          /\ heap' = [heap EXCEPT ![store[gc.p][k]] = entryRemoveBefore(@, gc.remove)]
          /\ gc' = [gc EXCEPT !.pc = "cap", !.key = k]
    /\ UNCHANGED <<isClosed, idx, store, pmu, now, ticks, spc, wvars>>
    /\ UNCHANGED <<twvars, itvars, shvars, msvars>>

\* the check with len(e.values) in place of cap(e.values)
G_CapLen ==
    /\ gc.pc = "cap"
    /\ gc' = [gc EXCEPT !.pc = "range",
                        !.todo = @ \ {gc.key},
                        !.key = "",
                        !.keep = IF Len(heap[store[gc.p][gc.key]].values) # 0
                                 THEN @ \cup {gc.key} ELSE @]
    /\ UNCHANGED <<isClosed, idx, store, heap, pmu, now, ticks, spc, wvars>>
    /\ UNCHANGED <<twvars, itvars, shvars, msvars>>

\* cap(e.values) != 0: the entry goes into the new map
G_Cap ==
    /\ gc.pc = "cap"
    /\ gc' = [gc EXCEPT !.pc = "range",
                        !.todo = @ \ {gc.key},
                        !.key = "",
                        !.keep = IF heap[store[gc.p][gc.key]].cap # 0
                                 THEN @ \cup {gc.key} ELSE @]
    /\ UNCHANGED <<isClosed, idx, store, heap, pmu, now, ticks, spc, wvars>>
    /\ UNCHANGED <<twvars, itvars, shvars, msvars>>

\* p.store = store and the deferred p.mu.Unlock(); shard.removeBefore goes
\* to the next partition, or gc back to its select
G_Unlock ==
    /\ gc.pc = "range"
    /\ gc.todo = {}
    /\ store' = [store EXCEPT ![gc.p] =
                    [k \in SeriesKeys |-> IF k \in gc.keep THEN store[gc.p][k] ELSE 0]]
    /\ pmu' = [pmu EXCEPT ![gc.p] = "free"]
    /\ gc' = [gc EXCEPT !.pc = IF gc.p + 1 = PartitionNum THEN "select" ELSE "lock",
                        !.p = IF gc.p + 1 = PartitionNum THEN 0 ELSE gc.p + 1,
                        !.keep = {}, !.empty = {}, !.held = {}]
    /\ UNCHANGED <<isClosed, idx, heap, now, ticks, spc, wvars>>
    /\ UNCHANGED <<twvars, itvars, shvars, msvars>>

\* case <-db.stop with "break", which leaves the select and not the loop
gcOnStopBreak == GcAt("select")

\* case <-db.stop: return
gcOnStop == GcAt("exited")

\* a caller enters Stop
S_Call(s) ==
    /\ spc[s] = "idle"
    /\ spc' = [spc EXCEPT ![s] = "send"]
    /\ UNCHANGED <<isClosed, idx, store, heap, pmu, gc, now, ticks, wvars>>
    /\ UNCHANGED <<twvars, itvars, shvars, msvars>>

\* db.stop <- struct{}{}: the channel is unbuffered, the send completes
\* when gc receives in its select
S_Send(s) ==
    /\ spc[s] = "send"
    /\ gc.pc = "select"
    /\ gc' = gcOnStop
    /\ spc' = [spc EXCEPT ![s] = "close"]
    /\ UNCHANGED <<isClosed, idx, store, heap, pmu, now, ticks, wvars>>
    /\ UNCHANGED <<twvars, itvars, shvars, msvars>>

\* the value Stop stores into db.isClosed
closedByStop == TRUE

\* db.isClosed = true, and Stop returns
S_Close(s) ==
    /\ spc[s] = "close"
    /\ isClosed' = closedByStop
    /\ spc' = [spc EXCEPT ![s] = "done"]
    /\ UNCHANGED <<idx, store, heap, pmu, gc, now, ticks, wvars>>
    /\ UNCHANGED <<twvars, itvars, shvars, msvars>>

\* ------------------------------------------------------------------------
\* tsdb: the shard's operations, each run to its end by one caller
\* (src/shard.go)
\* ------------------------------------------------------------------------

\* partition.write with no other goroutine at work: the entry is looked up
\* and added to, or created under p.mu
partitionWrite(st, hp, key, values) ==
    LET p == getPartitions(key)
        e == st[p][key]
    IN  IF e # 0
        THEN [store |-> st, heap |-> [hp EXCEPT ![e] = entryAdd(@, values)]]
        ELSE [store |-> [st EXCEPT ![p][key] = Len(hp) + 1],
              heap |-> Append(hp, newEntry(values))]

\* partition.removeBefore with no other goroutine at work: every entry of
\* the map is swept, and goes into the new map unless cap(e.values) is zero
partitionRemoveBefore(st, hp, p, unixNano) ==
    LET swept == [e \in DOMAIN hp |->
                     IF \E k \in SeriesKeys : st[p][k] = e
                     THEN entryRemoveBefore(hp[e], unixNano) ELSE hp[e]]
    IN  [store |-> [st EXCEPT ![p] =
                       [k \in SeriesKeys |->
                           IF st[p][k] # 0 /\ swept[st[p][k]].cap # 0
                           THEN st[p][k] ELSE 0]],
         heap |-> swept]

\* shard.removeBefore: the partitions from p on, one after the other
RECURSIVE shardRemoveBefore(_, _, _, _)
shardRemoveBefore(st, hp, p, unixNano) ==
    IF p = PartitionNum THEN [store |-> st, heap |-> hp]
    ELSE LET r == partitionRemoveBefore(st, hp, p, unixNano)
         IN  shardRemoveBefore(r.store, r.heap, p + 1, unixNano)

Stamps == 1..MaxStamp
Cutoffs == 1..(MaxStamp + 1)

\* the batches the caller writes; V numbers the values in the order in
\* which they are written
ShBatches ==
    LET shapes == SeqsUpTo(Stamps, MaxBatch) \ {<<>>}
    IN  {[i \in 1..Len(ts) |-> [unixNano |-> ts[i], v |-> shOp.n * MaxBatch + i]] :
            ts \in shapes}

NoOp == [n |-> 0, op |-> "none", key |-> "", unixNano |-> 0, min |-> 0, max |-> 0,
         res |-> <<>>, again |-> FALSE]

shrest == <<isClosed, idx, pmu, gc, now, ticks, wvars, spc>>

\* the caller writes a batch to a series: getPartitions(key).write(key, vs)
SH_Write ==
    /\ shOp.n < MaxOps
    /\ \E k \in SeriesKeys, vs \in ShBatches :
          LET r == partitionWrite(store, heap, k, Stamp(vs))
          IN  /\ store' = r.store
              /\ heap' = r.heap
              /\ shOp' = [NoOp EXCEPT !.n = shOp.n + 1, !.op = "write", !.key = k,
                                      !.res = Stamp(vs)]
    /\ UNCHANGED <<shrest, msvars, twvars, itvars>>

\* the caller sweeps the shard: shard.removeBefore(unixNano)
SH_RemoveBefore ==
    /\ shOp.n < MaxOps
    /\ \E c \in Cutoffs :
          LET r == shardRemoveBefore(store, heap, 0, c)
          IN  /\ store' = r.store
              /\ heap' = r.heap
              \* again: the call before this one was removeBefore(c) too
              /\ shOp' = [NoOp EXCEPT !.n = shOp.n + 1, !.op = "removeBefore",
                                      !.unixNano = c,
                                      !.again = (shOp.op = "removeBefore"
                                                   /\ shOp.unixNano = c)]
    /\ UNCHANGED <<shrest, msvars, twvars, itvars>>

\* the caller reads a series: getPartitions(key).valuesBetween(key, min, max).
\* It changes nothing of the shard, so one recorded call per state of the
\* shard shows all that a read can return.
SH_ValuesBetween ==
    /\ shOp.op # "valuesBetween"
    /\ \E k \in SeriesKeys, min \in 0..(MaxStamp + 1), max \in 0..(MaxStamp + 1) :
          shOp' = [NoOp EXCEPT !.n = shOp.n, !.op = "valuesBetween", !.key = k,
                               !.min = min, !.max = max,
                               !.res = valuesBetween(k, min, max)]
    /\ UNCHANGED <<store, heap>>
    /\ UNCHANGED <<shrest, msvars, twvars, itvars>>

\* ------------------------------------------------------------------------
\* memtsdb: the Shard with its index and Clear (spec-modelled, after the
\* specification and src/shard_test.go)
\* ------------------------------------------------------------------------

\* NewMemShard: no values, and an index without entries
NewMemShard == [values |-> <<>>, index |-> [t \in AllTags |-> <<>>]]

\* Shard.updateIndex: the id is appended to the list the tag has
updateIndex(s, id, tag) == [s EXCEPT !.index[tag] = Append(@, id)]

\* Shard.Insert: the point is appended to the values, and its position (from
\* 0) is indexed under each of its tags
MemShardInsert(s, point) ==
    [values |-> Append(s.values, point),
     index |-> [t \in AllTags |->
                   IF t \in point.tags THEN updateIndex(s, Len(s.values), t).index[t]
                   ELSE s.index[t]]]

\* Shard.Query: the points the index lists under the tag with
\* min <= Time <= max, in the order of the list
MemShardQuery(s, tag, min, max) ==
    LET listed == [i \in 1..Len(s.index[tag]) |-> s.values[s.index[tag][i] + 1]]
        In(pt) == pt.time >= min /\ pt.time <= max
    IN  SelectSeq(listed, In)

\* Clear that empties the index and leaves the values
MemShardClearIndexOnly(s) == [s EXCEPT !.index = [t \in AllTags |-> <<>>]]

\* Shard.Clear: the values and the index are emptied
MemShardClear(s) == [values |-> <<>>, index |-> [t \in AllTags |-> <<>>]]

NoQuery == [n |-> 0, q |-> None]

\* Insert on the Shard, and on its fresh twin once there is one
MS_Insert ==
    /\ msq.n < MaxInserts
    /\ \E point \in [tags : TagSets, time : 0..MaxStamp, field : {msq.n + 1}] :
          /\ ms' = MemShardInsert(ms, point)
          /\ fr' = IF fr = None THEN None ELSE MemShardInsert(fr, point)
    /\ msq' = [n |-> msq.n + 1, q |-> None]
    /\ UNCHANGED <<shvars, twvars, itvars, dbvars>>

\* Clear on the Shard; a fresh Shard is constructed beside it
MS_Clear ==
    /\ ms' = MemShardClear(ms)
    /\ fr' = NewMemShard
    /\ msq' = [msq EXCEPT !.q = None]
    /\ UNCHANGED <<shvars, twvars, itvars, dbvars>>

\* Query on the Shard, and on its fresh twin once there is one.  It changes
\* neither, so one recorded call per state shows all that a Query can return.
MS_Query ==
    /\ msq.q = None
    /\ \E tag \in AllTags, min \in 0..MaxStamp, max \in 0..MaxStamp :
          msq' = [msq EXCEPT !.q =
                     [tag |-> tag, min |-> min, max |-> max,
                      ps |-> MemShardQuery(ms, tag, min, max),
                      fresh |-> IF fr = None THEN <<>>
                                ELSE MemShardQuery(fr, tag, min, max)]]
    /\ UNCHANGED <<ms, fr>>
    /\ UNCHANGED <<shvars, twvars, itvars, dbvars>>

InitMS ==
    /\ ms = NewMemShard
    /\ fr = None
    /\ msq = NoQuery

\* ------------------------------------------------------------------------
\* Specifications
\* ------------------------------------------------------------------------

InitTW ==
    /\ sgs = <<>>
    /\ emptySgs = <<>>
    /\ shards = <<>>
    /\ inserted = <<>>
    /\ lastQuery = None

InitIT ==
    /\ itT = 0
    /\ itD = 1
    /\ itG = None

\* New: an empty shard and index, and gc started
InitDB ==
    /\ isClosed = FALSE
    /\ idx = {}
    /\ store = newShard
    /\ heap = <<>>
    /\ pmu = [p \in Partitions |-> "free"]
    /\ gc = [pc |-> "select", remove |-> 0, p |-> 0, todo |-> {}, key |-> "", keep |-> {},
             empty |-> {}, held |-> {}]
    /\ now = 0
    /\ ticks = 0
    /\ wpc = [w \in Writers |-> "idle"]
    /\ wvalues = [w \in Writers |-> NoValues]
    /\ wtodo = [w \in Writers |-> {}]
    /\ wkey = [w \in Writers |-> ""]
    /\ we = [w \in Writers |-> 0]
    /\ wres = [w \in Writers |-> "none"]
    /\ wcalls = [w \in Writers |-> 0]
    /\ winvalid = [w \in Writers |-> 0]
    /\ wrote = [w \in Writers |-> NoValues]
    /\ spc = [s \in Stoppers |-> "idle"]

InitSH == shOp = NoOp

Init == InitTW /\ InitIT /\ InitDB /\ InitSH /\ InitMS

WStep(w) == W_Index(w) \/ W_Read(w) \/ W_Add(w) \/ W_Lock(w) \/ W_Create(w)

GcStep == G_Tick \/ G_Lock \/ G_Remove \/ G_Cap \/ G_Unlock

SStep(s) == S_Send(s) \/ S_Close(s)

Next ==
    \/ \E w \in Writers : W_Call(w) \/ WStep(w)
    \/ GcStep
    \/ \E s \in Stoppers : S_Call(s) \/ SStep(s)

\* the generic engine
Spec == Init /\ [][Next]_vars

\* the generic engine under the Go scheduler: a goroutine that can take a
\* step eventually takes it; nothing obliges a caller to call
FairSpec ==
    /\ Spec
    /\ \A w \in Writers : WF_vars(WStep(w))
    /\ WF_vars(GcStep)
    /\ \A s \in Stoppers : WF_vars(SStep(s))

NextTW == InsertPoints \/ Query

NextIT == ApplyInitTime \/ DrawInitTime

\* the time-windowed engine
SpecTW == Init /\ [][NextTW]_vars

\* initTime as a pure function
SpecIT == Init /\ [][NextIT]_vars

NextSH == SH_Write \/ SH_RemoveBefore \/ SH_ValuesBetween

\* the shard under one caller
SpecSH == Init /\ [][NextSH]_vars

NextMS == MS_Insert \/ MS_Clear \/ MS_Query

\* the memtsdb Shard under one caller
SpecMS == Init /\ [][NextMS]_vars

\* ------------------------------------------------------------------------
\* Claims about the time-windowed engine
\* ------------------------------------------------------------------------

\* the set of elements of a sequence
Range(seq) == {seq[i] : i \in 1..Len(seq)}

\* the inserted points that carry the tag and lie in [min, max]
Expected(tag, min, max) ==
    {p \in Range(inserted) : tag \in p.tags /\ p.time >= min /\ p.time <= max}

\* C1: whatever was inserted, Query(tag, min, max) returns exactly the
\* inserted points that carry the tag and whose Time lies in [min, max]:
\* none missing, none extra, none twice.
C1_QueryReturnsExactlyTheMatches ==
    lastQuery # None =>
        /\ Range(lastQuery.ps) = Expected(lastQuery.tag, lastQuery.min, lastQuery.max)
        /\ Len(lastQuery.ps) = Cardinality(Range(lastQuery.ps))

\* C8: any two distinct entries of the active list have disjoint windows
\* [min, max): they share no instant, and no window appears twice.
C8_ActiveWindowsDisjoint ==
    \A i, j \in 1..Len(sgs) :
        i # j => (sgs[i].max <= sgs[j].min \/ sgs[j].max <= sgs[i].min)

\* C9: after initTime(t, d) the window is d long, starts on a multiple of d
\* and contains t, also when t is itself a multiple of d.
C9_InitTimeWindowContainsT ==
    itG # None =>
        /\ itG.max - itG.min = itD
        /\ itG.min % itD = 0
        /\ contains(itG, itT)
        /\ itG.min <= itT /\ itT < itG.max

\* C10: groups whose data has expired are retired to the pool, so the active
\* list never holds more windows than a retention period can overlap
\* (retention / bucket duration, plus one for a window that is cut).
C10_ActiveGroupsBoundedByRetention ==
    Cardinality({<<sgs[i].min, sgs[i].max>> : i \in 1..Len(sgs)})
        <= (RetentionDuration \div ShardGroupDuration) + 1

\* the window [g.min, g.max) and the range [min, max] share an instant
Overlaps(g, min, max) == g.min <= max /\ min < g.max

\* C17: Query consults the shard of every active group whose window
\* [g.min, g.max) shares an instant with the query range [min, max]: have
\* is true of each such group, also when the range covers the whole window.
C17_QuerySearchesOverlappingGroups ==
    lastQuery # None =>
        \A i \in 1..Len(sgs) :
            Overlaps(sgs[i], lastQuery.min, lastQuery.max) =>
                have(sgs[i], lastQuery.min, lastQuery.max)

\* ------------------------------------------------------------------------
\* Claims about the generic engine
\* ------------------------------------------------------------------------

\* values without their history field
Strip(vs) == [i \in 1..Len(vs) |-> [unixNano |-> vs[i].unixNano, v |-> vs[i].v]]

\* the values of a sequence with min <= UnixNano <= max
Between(vs, min, max) ==
    LET In(v) == v.unixNano >= min /\ v.unixNano <= max
    IN  SelectSeq(vs, In)

ValueTimes == 0..MaxNow

AllReturned == \A w \in Writers : wpc[w] = "idle"

DisjointSeries ==
    \A k \in SeriesKeys : wrote[1][k] = <<>> \/ wrote[2][k] = <<>>

StopReturned == \E s \in Stoppers : spc[s] = "done"

\* the step in which writer w enters WritePoints
CallStep(w) == wcalls'[w] = wcalls[w] + 1

StorageUnchanged == idx' = idx /\ store' = store /\ heap' = heap

\* C2: writers of pairwise disjoint series, no sweep: once every call has
\* returned, each series has an entry and valuesBetween(key, min, max)
\* returns, for every range, exactly the values written to the series that
\* lie in the range, in the order written.
C2_NoLostWrite ==
    (AllReturned /\ ticks = 0 /\ DisjointSeries) =>
        \A w \in Writers, k \in SeriesKeys :
            wrote[w][k] # <<>> =>
                /\ store[getPartitions(k)][k] # 0
                /\ \A min \in ValueTimes, max \in ValueTimes :
                      Strip(valuesBetween(k, min, max)) = Between(wrote[w][k], min, max)

\* C2 witness: both writers have written, to different series, and returned
C2_Witness ==
    /\ AllReturned /\ ticks = 0 /\ DisjointSeries
    /\ \A w \in Writers : wres[w] = "nil" /\ \E k \in SeriesKeys : wrote[w][k] # <<>>

\* C3, as claimed: a call whose batch holds a point without tags returns
\* ErrPointMissingTag and changes neither the index nor the store.
C3_InvalidBatchReturnsMissingTag ==
    [][\A w \in Writers :
          (CallStep(w) /\ winvalid'[w] # 0) =>
              /\ wres'[w] = "ErrPointMissingTag"
              /\ wpc'[w] = "idle"
              /\ StorageUnchanged]_vars

\* C3, amended: such a call returns ErrPointMissingTag, or ErrDBClosed when
\* the engine is already closed, and either way changes neither the index
\* nor the store.
C3_InvalidBatchRejected ==
    [][\A w \in Writers :
          (CallStep(w) /\ winvalid'[w] # 0) =>
              /\ wres'[w] = (IF isClosed THEN "ErrDBClosed" ELSE "ErrPointMissingTag")
              /\ wpc'[w] = "idle"
              /\ StorageUnchanged]_vars

\* C3 witness: a batch whose second point has no tags was rejected by an
\* engine that holds data
C3_Witness ==
    \E w \in Writers :
        /\ winvalid[w] = 2 /\ wres[w] = "ErrPointMissingTag"
        /\ idx # {} /\ heap # <<>>

\* C4: a WritePoints call that starts once Stop has returned returns
\* ErrDBClosed and changes neither the index nor the store, and isClosed
\* never goes back to false.
C4_WriteAfterStopRejected ==
    [][/\ StopReturned =>
             \A w \in Writers :
                 CallStep(w) =>
                     /\ wres'[w] = "ErrDBClosed"
                     /\ wpc'[w] = "idle"
                     /\ StorageUnchanged
       /\ isClosed => isClosed']_vars

\* C4 witness: Stop has returned and a later call got ErrDBClosed
C4_Witness ==
    /\ StopReturned
    /\ \E w \in Writers : wres[w] = "ErrDBClosed" /\ wpc[w] = "idle"

\* C5: no invocation waits forever: a caller of Stop that waits to send on
\* db.stop still has gc there to receive.
C5_NoInvocationBlockedForever ==
    \A s \in Stoppers : spc[s] = "send" => gc.pc # "exited"

\* C5, for Stop and under fair scheduling: every call of Stop returns.
C5_EveryStopReturns ==
    \A s \in Stoppers : (spc[s] = "send") ~> (spc[s] = "done")

\* C5, for WritePoints and under fair scheduling: every call of WritePoints
\* returns.
C5_EveryWriteReturns ==
    \A w \in Writers : (wpc[w] # "idle") ~> (wpc[w] = "idle")

\* C6: once Stop has returned, gc has exited, the engine is marked closed,
\* and gc takes no further step on the store.
C6_GcStopsOnStop ==
    [][/\ StopReturned' => (gc'.pc = "exited" /\ isClosed')
       /\ StopReturned => (gc' = gc /\ ticks' = ticks)]_vars

\* C6 witness: Stop has returned after a sweep, while a write is under way
C6_Witness ==
    /\ StopReturned /\ ticks > 0
    /\ \E w \in Writers : wpc[w] \in {"add", "create"}

\* the values the store holds for a key
Held(k) ==
    LET e == store[getPartitions(k)][k]
    IN  IF e = 0 THEN <<>> ELSE heap[e].values

\* the entries the shard's maps point to
Mapped == {store[p][k] : p \in Partitions, k \in SeriesKeys} \ {0}

\* C7: a sweep uses the cutoff now - retention, and once it has run no value
\* stored before it began with a timestamp below the cutoff is held by the
\* store or returned by valuesBetween.
C7_SweepEvictsExpired ==
    (gc.pc \in {"select", "exited"} /\ ticks > 0) =>
        /\ gc.remove = now - Retention
        /\ \A k \in SeriesKeys :
              /\ \A i \in 1..Len(Held(k)) :
                    Held(k)[i].unixNano < gc.remove => Held(k)[i].ep >= ticks
              /\ \A min \in ValueTimes, max \in ValueTimes :
                    LET got == valuesBetween(k, min, max)
                    IN  \A i \in 1..Len(got) :
                            got[i].unixNano < gc.remove => got[i].ep >= ticks

\* C7 witness: a sweep has emptied the entry of a series that held values
C7_Witness ==
    /\ gc.pc = "select" /\ ticks > 0 /\ gc.remove > 0
    /\ \E k \in SeriesKeys :
          /\ wrote[1][k] # <<>>
          /\ store[getPartitions(k)][k] # 0
          /\ heap[store[getPartitions(k)][k]].values = <<>>
          /\ heap[store[getPartitions(k)][k]].cap > 0

\* C14: a series key has an entry only in the partition of index
\* hash(key) mod the number of partitions, so never in two partitions; a
\* writer that creates the key's entry holds the lock of that partition; and
\* no entry is mapped under two keys.
C14_KeyOnlyInItsPartition ==
    /\ \A k \in SeriesKeys, p \in Partitions :
          store[p][k] # 0 => p = Hash(k) % PartitionNum
    /\ \A w \in Writers :
          wpc[w] = "create" => pmu[Hash(wkey[w]) % PartitionNum] = "writer"
    /\ \A k1, k2 \in SeriesKeys, p1, p2 \in Partitions :
          (store[p1][k1] # 0 /\ store[p1][k1] = store[p2][k2]) => (k1 = k2 /\ p1 = p2)

\* C14 witness: both series have their entry in their partition, after
\* sweeps over all partitions and during a write
C14_Witness ==
    /\ ticks > 0
    /\ \A k \in SeriesKeys : store[Hash(k) % PartitionNum][k] # 0
    /\ \E w \in Writers : wpc[w] = "add"

\* C15: a write is never lost to a concurrent sweep: once every call has
\* returned and gc is between sweeps, every value written whose timestamp is
\* not below the cutoff of the last sweep is held by the entry the
\* partition maps the key to, and valuesBetween returns it.
C15_NoWriteLostToSweep ==
    (AllReturned /\ gc.pc \in {"select", "exited"}) =>
        \A w \in Writers, k \in SeriesKeys :
            \A i \in 1..Len(wrote[w][k]) :
                LET v == wrote[w][k][i]
                IN  v.unixNano >= gc.remove =>
                        /\ v \in Range(Strip(Held(k)))
                        /\ v \in Range(Strip(valuesBetween(k, v.unixNano, v.unixNano)))

\* writer w has finished partition.write for series k
Done(w, k) == wrote[w][k] # <<>> /\ wpc[w] # "index" /\ k \notin wtodo[w]

\* C16: callers that each write one batch to a series that has no entry
\* yet, no sweep: at every moment the series has one entry if any write to
\* it has finished, no other entry was ever made for it, and the entry holds
\* the batches of the finished writes one after the other, each whole and in
\* its caller's order.
C16_ConcurrentCreateKeepsAll ==
    (ticks = 0 /\ \A w \in Writers : wcalls[w] <= 1) =>
        /\ Len(heap) = Cardinality({k \in SeriesKeys : store[getPartitions(k)][k] # 0})
        /\ \A k \in SeriesKeys :
              LET B(w) == IF Done(w, k) THEN wrote[w][k] ELSE <<>>
              IN  Strip(Held(k)) \in {B(1) \o B(2), B(2) \o B(1)}

\* C16 witness: a writer that found no entry for the series holds the
\* partition's lock for its second look, while the other writer, whose call
\* has returned, has created the entry with its batch of two
C16_Witness ==
    /\ ticks = 0 /\ \A w \in Writers : wcalls[w] <= 1
    /\ \E w1, w2 \in Writers :
          /\ wpc[w2] = "create" /\ we[w2] = 0
          /\ wpc[w1] = "idle" /\ Done(w1, wkey[w2])
          /\ Len(Held(wkey[w2])) = 2

\* the step in which partition.removeBefore installs the new map and returns
SweepReturns == pmu[gc.p] = "gc" /\ pmu'[gc.p] = "free"

\* C18, as claimed: partition.removeBefore takes a key out of the map
\* exactly when its entry held no values at the start of the call.
C18_DroppedIffEmptyAtStart ==
    [][SweepReturns =>
          \A k \in SeriesKeys :
              store[gc.p][k] # 0 => (store'[gc.p][k] = 0 <=> k \in gc.empty)]_vars

\* C18, amended: a key is taken out of the map only if its entry held no
\* values at the start of the call, and is taken out if moreover no write
\* that had looked the entry up was still under way; an entry that held a
\* value at the start stays mapped, also when the call evicts all it held.
C18_DroppedOnlyIfEmptyAtStart ==
    [][SweepReturns =>
          \A k \in SeriesKeys :
              store[gc.p][k] # 0 =>
                  /\ k \notin gc.empty => store'[gc.p][k] = store[gc.p][k]
                  /\ store'[gc.p][k] = 0 => k \in gc.empty
                  /\ (k \in gc.empty /\ k \notin gc.held) => store'[gc.p][k] = 0]_vars

\* C18 witness: the second sweep has returned; it took out of the map a
\* series that the first had emptied, and left mapped and empty a series
\* all of whose values it evicted itself
C18_Witness ==
    /\ ticks = 2 /\ gc.pc = "lock" /\ gc.p = 1
    /\ \E e \in DOMAIN heap : e \notin Mapped /\ heap[e].values = <<>> /\ heap[e].cap = 0
    /\ \E k1, k2 \in SeriesKeys :
          /\ k1 \in idx /\ store[0][k1] = 0
          /\ store[0][k2] # 0
          /\ heap[store[0][k2]].values = <<>>
          /\ heap[store[0][k2]].cap > 0

\* C20: every series key that has an entry in the store is registered in
\* the index, in every state and in the middle of calls and sweeps, and no
\* step takes a series out of the index.
C20_StoredSeriesIndexed ==
    [][/\ \A k \in SeriesKeys, p \in Partitions : store'[p][k] # 0 => k \in idx'
       /\ idx \subseteq idx']_vars

\* C20 witness: the index lists a series that a sweep has taken out of the
\* store, beside one that has an entry, while a write is under way
C20_Witness ==
    /\ \E k \in idx : store[getPartitions(k)][k] = 0
    /\ \E k \in idx : store[getPartitions(k)][k] # 0
    /\ \E w \in Writers : wpc[w] \in {"add", "lock", "create"}

\* ------------------------------------------------------------------------
\* Claims about the shard under one caller
\* ------------------------------------------------------------------------

Ranges == 0..(MaxStamp + 1)

\* C11: removeBefore(t) called again right after removeBefore(t), with no
\* write in between, leaves for every series the same retained values:
\* valuesBetween returns the same for every range, and every entry holds
\* the same values in the same order.
C11_RemoveBeforeIdempotent ==
    [][(shOp'.op = "removeBefore" /\ shOp'.n = shOp.n + 1 /\ shOp'.again) =>
          /\ \A k \in SeriesKeys, min \in Ranges, max \in Ranges :
                valuesBetween(k, min, max)' = valuesBetween(k, min, max)
          /\ \A e \in DOMAIN heap : heap'[e].values = heap[e].values]_vars

\* C11 witness: the second of two equal sweeps has taken out of the map an
\* entry that the first had emptied, while another series still holds values
C11_Witness ==
    /\ shOp.op = "removeBefore" /\ shOp.again
    /\ \E e \in DOMAIN heap : e \notin Mapped /\ heap[e].cap = 0
    /\ \E k \in SeriesKeys : Held(k) # <<>>

\* C12: valuesBetween(key, min, max) returns exactly the stored values of
\* the series with min <= UnixNano <= max, each once, in the order in which
\* they were written; nothing for a key without entry or a range without
\* data; and it changes nothing of the store.
C12_ValuesBetweenExact ==
    [][(shOp'.op = "valuesBetween" /\ shOp' # shOp) =>
          LET res == shOp'.res
              k == shOp'.key
          IN  /\ Range(res) = {v \in Range(Held(k)) :
                                  v.unixNano >= shOp'.min /\ v.unixNano <= shOp'.max}
              /\ \A i, j \in 1..Len(res) : i < j => res[i].v < res[j].v
              /\ store' = store /\ heap' = heap]_vars

\* C12 witness: a read returned two values of a series and left out a third
C12_Witness ==
    /\ shOp.op = "valuesBetween"
    /\ Len(shOp.res) >= 2
    /\ Len(shOp.res) < Len(Held(shOp.key))

\* C19: with no write under way, removeBefore(c) leaves every series with
\* exactly the values it held before whose UnixNano is >= c, in their
\* order: none of those is removed and no older one remains.
C19_SweepRemovesExactlyExpired ==
    [][(shOp'.op = "removeBefore" /\ shOp'.n = shOp.n + 1) =>
          LET Keep(v) == v.unixNano >= shOp'.unixNano
          IN  /\ \A k \in SeriesKeys : Held(k)' = SelectSeq(Held(k), Keep)
              /\ \A e \in Mapped : heap'[e].values = SelectSeq(heap[e].values, Keep)]_vars

\* C19 witness: a sweep has evicted a value of a series and kept one whose
\* UnixNano is the cutoff
C19_Witness ==
    /\ shOp.op = "removeBefore"
    /\ \E k \in SeriesKeys :
          /\ Held(k) # <<>>
          /\ Held(k)[1].unixNano = shOp.unixNano
          /\ heap[store[getPartitions(k)][k]].cap > Len(Held(k))

\* ------------------------------------------------------------------------
\* Claims about the memtsdb Shard
\* ------------------------------------------------------------------------

\* C13: after Clear, whatever was inserted before, the values and the index
\* are empty, and every Insert and Query that follows leaves the Shard in
\* the state, and returns the result, that a Shard constructed at the time
\* of the Clear has and returns.
C13_ClearIsFresh ==
    fr # None =>
        /\ ms = fr
        /\ msq.q # None => msq.q.ps = msq.q.fresh

\* C13 witness: points were inserted, the Shard cleared, more points
\* inserted, and a Query returned some of them
C13_Witness ==
    /\ fr # None
    /\ ms.values # <<>> /\ Len(ms.values) < msq.n
    /\ msq.q # None /\ msq.q.ps # <<>>

====
